---- MODULE Spec2Model ----
(***************************************************************************)
(* TukioHQ/ttlcache: a map of items guarded by a sync.RWMutex, with an     *)
(* optional TTL mode in which a background goroutine (the reaper) sweeps   *)
(* expired items on every tick of a time.Tick ticker.                      *)
(*                                                                         *)
(* Callers are goroutines 1..NumThreads; every method of Cache is split    *)
(* into the steps at which it synchronises or touches the shared state:    *)
(* the call, the (R)Lock, the body (one step per loop iteration where the  *)
(* body ranges over the map) and the deferred (R)Unlock.  Time is a        *)
(* discrete clock in milliseconds.                                         *)
(***************************************************************************)
EXTENDS Integers, FiniteSets, TLC

\* ---------------------------------------------------------------- bounds
NumThreads == 2       \* caller goroutines
NumKeys    == 2       \* distinct keys
NumValues  == 2       \* distinct (non-nil) payloads
MaxTTL     == 2       \* longest duration handed to NewTTLCache / SetTTL (ms)
MaxTime    == 2       \* the clock stops advancing here (ms)
LiveQuiet  == 1       \* callers of the fair runs stop calling after this (ms)
TimedTTL   == 4       \* the default TTL of the timed runs (ms)
TimedMax   == 13      \* the clock of the timed runs stops here (ms)

Threads   == 1 .. NumThreads
Keys      == 1 .. NumKeys
Values    == 1 .. NumValues
Durations == 0 .. MaxTTL

\* ------------------------------------------------------------- constants
Millisecond == 1      \* time.Millisecond, the unit of the clock
ZeroTime    == 0      \* an Item whose expiration was never set
StartTime   == 1      \* time.Now() when the cache is constructed
Nil         == 0      \* the nil interface{} returned for a miss
ReaperId    == 0      \* the goroutine started by startTTLCleanupTimer

VARIABLES
    items,      \* cache.items : map[string]*Item, a function on the present keys
    isTTL,      \* cache.isTTL
    ttl,        \* cache.ttl
    mutex,      \* cache.mutex : [w: the writer (at most one), r: the readers]
    pc,         \* pc[t]  : where caller t is
    arg,        \* arg[t] : the key of t's current Delete
    ret,        \* ret[t] : what t's current Get or Count is about to return
    reapers,    \* number of reaper goroutines started so far
    rpc,        \* where the reaper goroutine is
    todo,       \* keys the sweep's range loop has still to visit
    period,     \* the duration given to time.Tick
    nextTick,   \* the time of the ticker's next tick
    tickReady,  \* the ticker's channel (capacity 1) holds a tick
    now,        \* time.Now()
    crashed,    \* the runtime threw a fatal error (concurrent map access)
    written     \* history: per key, the last Set and the last touch since

vars == << items, isTTL, ttl, mutex, pc, arg, ret, reapers, rpc, todo,
           period, nextTick, tickReady, now, crashed, written >>

cacheVars  == << items, isTTL, ttl >>
reaperVars == << reapers, rpc, todo, period, nextTick, tickReady >>
callVars   == << pc, arg, ret >>

\* ----------------------------------------------------------------- Item
\* type Item { data; expires }
Item(d, e) == [data |-> d, expires |-> e]

\* item.touch(ttl): expiresAt = now + ttl
touch(item, d) == [item EXCEPT !.expires = now + d]

\* item.expired(): expiresAt is set and strictly in the past
expired(item) == item.expires # ZeroTime /\ item.expires < now

\* ------------------------------------------------------------ map access
Has(m, k)     == k \in DOMAIN m
Store(m, k, i) == [x \in DOMAIN m \cup {k} |-> IF x = k THEN i ELSE m[x]]
Remove(m, k)  == [x \in DOMAIN m \ {k} |-> m[x]]
EmptyMap      == [x \in {} |-> Item(Nil, ZeroTime)]

\* ------------------------------------------------------------- the mutex
\* sync.RWMutex.  Lock excludes the other writers, announces itself and
\* waits for the readers inside to leave; RLock waits while a writer holds
\* the lock or has announced itself.  mutex.p is the announced writer: with
\* no reader inside, announcing and acquiring are one step.
LockFree   == mutex.w = {} /\ mutex.p = {} /\ mutex.r = {}
RLockFree  == mutex.w = {} /\ mutex.p = {}
Announced(p) == mutex.p = {p}
Lock(p)    == \/ LockFree /\ mutex' = [mutex EXCEPT !.w = {p}]
              \/ Announced(p) /\ mutex.r = {}
                 /\ mutex' = [mutex EXCEPT !.w = {p}, !.p = {}]
LockWait(p) == RLockFree /\ mutex.r # {} /\ mutex' = [mutex EXCEPT !.p = {p}]
Unlock(p)  == mutex' = [mutex EXCEPT !.w = @ \ {p}]
RLock(p)   == RLockFree /\ mutex' = [mutex EXCEPT !.r = @ \cup {p}]
RUnlock(p) == mutex' = [mutex EXCEPT !.r = @ \ {p}]

\* --------------------------------------------------------------- history
\* written[k] remembers the last write of k.  After a Set: the value, the
\* clock reading of the Set (set) and of the last touch since, the Set
\* included (at).  After a SetTTL with a ttl above 0: the time up to which
\* its ttl runs (until).  A Delete or Clear of k forgets it; a sweep does
\* not.
NotWritten == [data |-> Nil, set |-> ZeroTime, at |-> ZeroTime,
               until |-> ZeroTime]
WrittenBy(k, d) ==
    [written EXCEPT ![k] = [data |-> d, set |-> now, at |-> now,
                            until |-> ZeroTime]]
WrittenUntil(k, life) ==
    [written EXCEPT ![k] = IF life = 0 THEN NotWritten
                           ELSE [NotWritten EXCEPT !.until = now + life]]
Forget(k)  == [written EXCEPT ![k] = NotWritten]
SetWritten(k)    == written[k].set # ZeroTime
SetTTLWritten(k) == written[k].until # ZeroTime
Refreshed(k) == IF SetWritten(k) THEN [written EXCEPT ![k].at = now]
                ELSE written

\* ----------------------------------------------------------- local state
\* Arguments are drawn where the method first uses them; a Delete uses its
\* key in two steps and keeps it in arg.  ret holds the named results of Get
\* (with the key asked for) and of Count until the deferred unlock has run.
NoArg == 0
NoRet == [op |-> "none", key |-> 0, data |-> Nil, found |-> FALSE, count |-> 0]

Goto(t, l)   == pc' = [pc EXCEPT ![t] = l]
Return(t)    == /\ pc'  = [pc  EXCEPT ![t] = "idle"]
                /\ arg' = [arg EXCEPT ![t] = NoArg]
                /\ ret' = [ret EXCEPT ![t] = NoRet]
Call(t, l)   == /\ pc[t] = "idle"
                /\ Goto(t, l)
                /\ UNCHANGED << arg, ret >>

\* ---------------------------------------------------------- the ticker
\* startTTLCleanupTimer: if cache.isTTL, tick every max(cache.ttl, 1ms) and
\* start the goroutine that sweeps on every tick.
TickPeriod(d) == IF d < Millisecond THEN Millisecond ELSE d

startTTLCleanupTimer(ttlMode, d) ==
    IF ttlMode
    THEN /\ period'    = TickPeriod(d)
         /\ nextTick'  = now + TickPeriod(d)
         /\ tickReady' = FALSE
         /\ reapers'   = reapers + 1
         /\ rpc'       = "select"
         /\ todo'      = {}
    ELSE UNCHANGED reaperVars

\* --------------------------------------------------------- construction
Idle == /\ mutex   = [w |-> {}, p |-> {}, r |-> {}]
        /\ pc      = [t \in Threads |-> "idle"]
        /\ arg     = [t \in Threads |-> NoArg]
        /\ ret     = [t \in Threads |-> NoRet]
        /\ now     = StartTime
        /\ crashed = FALSE
        /\ written = [k \in Keys |-> NotWritten]

NewCache == /\ items = EmptyMap
            /\ isTTL = FALSE
            /\ ttl   = 0
            /\ reapers = 0 /\ rpc = "none" /\ todo = {}
            /\ period = 0 /\ nextTick = 0 /\ tickReady = FALSE

NewTTLCache(duration) ==
            /\ items = EmptyMap
            /\ isTTL = TRUE
            /\ ttl   = duration
            /\ reapers = 1 /\ rpc = "select" /\ todo = {}
            /\ period = TickPeriod(duration)
            /\ nextTick = StartTime + TickPeriod(duration)
            /\ tickReady = FALSE

Init == /\ Idle
        /\ \/ NewCache
           \/ \E d \in Durations : NewTTLCache(d)


\* ------------------------------------------------------------------ Set
SetCall(t) ==
    /\ ~crashed
    /\ Call(t, "Set_Lock")
    /\ UNCHANGED << cacheVars, mutex, reaperVars, now, crashed, written >>

SetLock(t) ==
    /\ ~crashed
    /\ pc[t] = "Set_Lock"
    /\ \/ Lock(t) /\ Goto(t, "Set_body")
       \/ LockWait(t) /\ UNCHANGED pc
    /\ UNCHANGED << cacheVars, arg, ret, reaperVars, now, crashed, written >>

\* mutant: Set touches the item with a zero duration
SetItemZero(key, data) ==
    LET fresh == Item(data, ZeroTime)
        item  == IF isTTL THEN touch(fresh, 0) ELSE fresh
    IN  items' = Store(items, key, item)

SetItem(key, data) ==
    LET fresh == Item(data, ZeroTime)
        item  == IF isTTL THEN touch(fresh, ttl) ELSE fresh
    IN  items' = Store(items, key, item)

SetBody(t) ==
    /\ ~crashed
    /\ pc[t] = "Set_body"
    /\ \E key \in Keys, data \in Values :
          /\ SetItem(key, data)
          /\ written' = WrittenBy(key, data)
    /\ Goto(t, "Set_Unlock")
    /\ UNCHANGED << isTTL, ttl, mutex, arg, ret, reaperVars, now, crashed >>

SetUnlock(t) ==
    /\ ~crashed
    /\ pc[t] = "Set_Unlock"
    /\ Unlock(t)
    /\ Return(t)
    /\ UNCHANGED << cacheVars, reaperVars, now, crashed, written >>

\* --------------------------------------------------------------- SetTTL
SetTTLCall(t) ==
    /\ ~crashed
    /\ Call(t, "SetTTL_Lock")
    /\ UNCHANGED << cacheVars, mutex, reaperVars, now, crashed, written >>

SetTTLLock(t) ==
    /\ ~crashed
    /\ pc[t] = "SetTTL_Lock"
    /\ \/ Lock(t) /\ Goto(t, "SetTTL_body")
       \/ LockWait(t) /\ UNCHANGED pc
    /\ UNCHANGED << cacheVars, arg, ret, reaperVars, now, crashed, written >>

\* mutant: SetTTL starts the timer without looking at cache.isTTL
EnsureTTLAlways ==
    /\ isTTL' = TRUE
    /\ startTTLCleanupTimer(TRUE, ttl)

\* if !cache.isTTL { cache.isTTL = true; cache.startTTLCleanupTimer() }
EnsureTTL ==
    IF ~isTTL
    THEN /\ isTTL' = TRUE
         /\ startTTLCleanupTimer(TRUE, ttl)
    ELSE UNCHANGED << isTTL, reaperVars >>

SetTTLBody(t) ==
    /\ ~crashed
    /\ pc[t] = "SetTTL_body"
    /\ EnsureTTL
    /\ \E key \in Keys, data \in Values, life \in Durations :
          /\ items' = Store(items, key, touch(Item(data, ZeroTime), life))
          /\ written' = WrittenUntil(key, life)
    /\ Goto(t, "SetTTL_Unlock")
    /\ UNCHANGED << ttl, mutex, arg, ret, now, crashed >>

SetTTLUnlock(t) ==
    /\ ~crashed
    /\ pc[t] = "SetTTL_Unlock"
    /\ Unlock(t)
    /\ Return(t)
    /\ UNCHANGED << cacheVars, reaperVars, now, crashed, written >>

\* ------------------------------------------------------------------ Get
GetCall(t) ==
    /\ ~crashed
    /\ Call(t, "Get_RLock")
    /\ UNCHANGED << cacheVars, mutex, reaperVars, now, crashed, written >>

GetRLock(t) ==
    /\ ~crashed
    /\ pc[t] = "Get_RLock"
    /\ RLock(t)
    /\ Goto(t, "Get_body")
    /\ UNCHANGED << cacheVars, arg, ret, reaperVars, now, crashed, written >>

Miss(k)      == [NoRet EXCEPT !.op = "Get", !.key = k]
Hit(k, item) == [NoRet EXCEPT !.op = "Get", !.key = k,
                              !.data = item.data, !.found = TRUE]

\* mutant: Get looks only at exists
IsMissNoExpiry(key) == ~Has(items, key)

\* if !exists || item.expired()
IsMiss(key) == ~Has(items, key) \/ expired(items[key])

\* mutant: Get returns the item without touching it
GetTouchKeeps(item) == item

\* item.touch(cache.ttl)
GetTouch(item) == touch(item, ttl)

\* mutant: Get takes the TTL branch whatever the mode
GetModeAlways == TRUE

\* if cache.isTTL
GetMode == isTTL

GetBody(t) ==
    /\ ~crashed
    /\ pc[t] = "Get_body"
    /\ \E key \in Keys :
         LET exists == Has(items, key)
         IN  IF GetMode
             THEN IF IsMiss(key)
                  THEN /\ ret' = [ret EXCEPT ![t] = Miss(key)]
                       /\ UNCHANGED << items, written >>
                  ELSE /\ items' = [items EXCEPT ![key] = GetTouch(@)]
                       /\ ret' = [ret EXCEPT ![t] = Hit(key, items[key])]
                       /\ written' = Refreshed(key)
             ELSE /\ ret' = [ret EXCEPT ![t] =
                                IF exists THEN Hit(key, items[key]) ELSE Miss(key)]
                  /\ UNCHANGED << items, written >>
    /\ Goto(t, "Get_RUnlock")
    /\ UNCHANGED << isTTL, ttl, mutex, arg, reaperVars, now, crashed >>

GetRUnlock(t) ==
    /\ ~crashed
    /\ pc[t] = "Get_RUnlock"
    /\ RUnlock(t)
    /\ Return(t)
    /\ UNCHANGED << cacheVars, reaperVars, now, crashed, written >>

\* ---------------------------------------------------------------- Count
CountCall(t) ==
    /\ ~crashed
    /\ Call(t, "Count_RLock")
    /\ UNCHANGED << cacheVars, mutex, reaperVars, now, crashed, written >>

CountRLock(t) ==
    /\ ~crashed
    /\ pc[t] = "Count_RLock"
    /\ RLock(t)
    /\ Goto(t, "Count_body")
    /\ UNCHANGED << cacheVars, arg, ret, reaperVars, now, crashed, written >>

\* mutant: Count leaves out the entries that have expired
CountBodyLive(t) ==
    /\ ~crashed
    /\ pc[t] = "Count_body"
    /\ ret' = [ret EXCEPT ![t] = [NoRet EXCEPT !.op = "Count",
               !.count = Cardinality({k \in DOMAIN items : ~expired(items[k])})]]
    /\ Goto(t, "Count_RUnlock")
    /\ UNCHANGED << cacheVars, mutex, arg, reaperVars, now, crashed, written >>

\* return len(cache.items)
CountBody(t) ==
    /\ ~crashed
    /\ pc[t] = "Count_body"
    /\ ret' = [ret EXCEPT ![t] = [NoRet EXCEPT !.op = "Count",
                                        !.count = Cardinality(DOMAIN items)]]
    /\ Goto(t, "Count_RUnlock")
    /\ UNCHANGED << cacheVars, mutex, arg, reaperVars, now, crashed, written >>

CountRUnlock(t) ==
    /\ ~crashed
    /\ pc[t] = "Count_RUnlock"
    /\ RUnlock(t)
    /\ Return(t)
    /\ UNCHANGED << cacheVars, reaperVars, now, crashed, written >>

\* ---------------------------------------------------------------- Clear
ClearCall(t) ==
    /\ ~crashed
    /\ Call(t, "Clear_Lock")
    /\ UNCHANGED << cacheVars, mutex, reaperVars, now, crashed, written >>

\* mutant: Clear takes the read lock
ClearRLock(t) ==
    /\ ~crashed
    /\ pc[t] = "Clear_Lock"
    /\ RLock(t)
    /\ Goto(t, "Clear_loop")
    /\ UNCHANGED << cacheVars, arg, ret, reaperVars, now, crashed, written >>

ClearLock(t) ==
    /\ ~crashed
    /\ pc[t] = "Clear_Lock"
    /\ \/ Lock(t) /\ Goto(t, "Clear_loop")
       \/ LockWait(t) /\ UNCHANGED pc
    /\ UNCHANGED << cacheVars, arg, ret, reaperVars, now, crashed, written >>

\* mutant: Clear puts the cache back into the mode NewCache gives it
ClearLoopResets(t) ==
    /\ ~crashed
    /\ pc[t] = "Clear_loop"
    /\ \E k \in DOMAIN items :
          /\ items' = Remove(items, k)
          /\ written' = Forget(k)
    /\ isTTL' = FALSE
    /\ UNCHANGED << ttl, mutex, callVars, reaperVars, now, crashed >>

\* for key := range cache.items { delete(cache.items, key) }, one key a step
ClearLoop(t) ==
    /\ ~crashed
    /\ pc[t] = "Clear_loop"
    /\ \E k \in DOMAIN items :
          /\ items' = Remove(items, k)
          /\ written' = Forget(k)
    /\ UNCHANGED << isTTL, ttl, mutex, callVars, reaperVars, now, crashed >>

\* mutant: the range loop of Clear may stop before the map is empty
ClearUnlockEarly(t) ==
    /\ ~crashed
    /\ pc[t] = "Clear_loop"
    /\ Unlock(t)
    /\ Return(t)
    /\ UNCHANGED << cacheVars, reaperVars, now, crashed, written >>

ClearUnlock(t) ==
    /\ ~crashed
    /\ pc[t] = "Clear_loop"
    /\ DOMAIN items = {}
    /\ Unlock(t)
    /\ Return(t)
    /\ UNCHANGED << cacheVars, reaperVars, now, crashed, written >>

\* --------------------------------------------------------------- Delete
\* Delete takes no lock.  An access of the map that overlaps a critical
\* section of another goroutine (or another Delete) is a data race on a Go
\* map: the runtime may throw "concurrent map read and map write" /
\* "concurrent map writes", or the access goes through, or it is lost.
Holders      == mutex.w \cup mutex.r
InDelete(u)  == pc[u] \in {"Delete_check", "Delete_del"}
ReadRace(t)  == \/ mutex.w \ {t} # {}
                \/ \E u \in Threads \ {t} : pc[u] = "Delete_del"
WriteRace(t) == \/ Holders \ {t} # {}
                \/ \E u \in Threads \ {t} : InDelete(u)

\* once the runtime has thrown, the process is gone: no step is enabled
Crash == /\ crashed' = TRUE
         /\ UNCHANGED << cacheVars, mutex, callVars, reaperVars, now, written >>

DeleteCall(t) ==
    /\ ~crashed
    /\ pc[t] = "idle"
    /\ Goto(t, "Delete_check")
    /\ \E key \in Keys : arg' = [arg EXCEPT ![t] = key]
    /\ UNCHANGED << cacheVars, mutex, ret, reaperVars, now, crashed, written >>

\* if _, ok := cache.items[key]; ok {
DeleteCheck(t) ==
    /\ ~crashed
    /\ pc[t] = "Delete_check"
    /\ \/ /\ ReadRace(t)
          /\ Crash
       \/ /\ \E ok \in BOOLEAN :
                /\ ok = Has(items, arg[t]) \/ ReadRace(t)
                /\ IF ok THEN Goto(t, "Delete_del") /\ UNCHANGED << arg, ret >>
                         ELSE Return(t)
          /\ written' = Forget(arg[t])
          /\ UNCHANGED << cacheVars, mutex, reaperVars, now, crashed >>

\* delete(cache.items, key)
DeleteDel(t) ==
    /\ ~crashed
    /\ pc[t] = "Delete_del"
    /\ \/ /\ WriteRace(t)
          /\ Crash
       \/ /\ \/ items' = Remove(items, arg[t])
             \/ WriteRace(t) /\ UNCHANGED items
          /\ written' = Forget(arg[t])
          /\ Return(t)
          /\ UNCHANGED << isTTL, ttl, mutex, reaperVars, now, crashed >>

\* ----------------------------------------------------------- the reaper
\* the runtime's ticker: a tick every period, dropped when the channel is full
TickerFire ==
    /\ ~crashed
    /\ rpc # "none"
    /\ now >= nextTick
    /\ tickReady' = TRUE
    /\ nextTick' = nextTick + period
    /\ UNCHANGED << cacheVars, mutex, callVars, reapers, rpc, todo, period,
                    now, crashed, written >>

\* case <-ticker:
ReaperSelect ==
    /\ ~crashed
    /\ rpc = "select"
    /\ tickReady
    /\ tickReady' = FALSE
    /\ rpc' = "Lock"
    /\ UNCHANGED << cacheVars, mutex, callVars, reapers, todo, period,
                    nextTick, now, crashed, written >>

\* mutant: the sweep tests the mode the wrong way round
ttlCleanupLockInverted ==
    /\ ~crashed
    /\ rpc = "Lock"
    /\ \/ /\ Lock(ReaperId)
          /\ rpc' = "loop"
          /\ todo' = IF ~isTTL THEN DOMAIN items ELSE {}
       \/ LockWait(ReaperId) /\ UNCHANGED << rpc, todo >>
    /\ UNCHANGED << cacheVars, callVars, reapers, period, nextTick, tickReady,
                    now, crashed, written >>

ttlCleanupLock ==
    /\ ~crashed
    /\ rpc = "Lock"
    /\ \/ /\ Lock(ReaperId)
          /\ rpc' = "loop"
          /\ todo' = IF isTTL THEN DOMAIN items ELSE {}
       \/ LockWait(ReaperId) /\ UNCHANGED << rpc, todo >>
    /\ UNCHANGED << cacheVars, callVars, reapers, period, nextTick, tickReady,
                    now, crashed, written >>

\* for key, item := range cache.items { if item.expired() { delete } }
ttlCleanupLoop ==
    /\ ~crashed
    /\ rpc = "loop"
    /\ \E k \in todo :
          /\ todo' = todo \ {k}
          /\ items' = IF Has(items, k) /\ expired(items[k])
                      THEN Remove(items, k) ELSE items
    /\ UNCHANGED << isTTL, ttl, mutex, callVars, reapers, rpc, period, nextTick,
                    tickReady, now, crashed, written >>

ttlCleanupUnlock ==
    /\ ~crashed
    /\ rpc = "loop"
    /\ todo = {}
    /\ Unlock(ReaperId)
    /\ rpc' = "select"
    /\ UNCHANGED << cacheVars, callVars, reapers, todo, period, nextTick,
                    tickReady, now, crashed, written >>

\* ------------------------------------------------------------ the clock
\* The runtime delivers a tick when it is due; the goroutine that receives
\* it may run arbitrarily later.
TickDue == rpc # "none" /\ now >= nextTick

ClockAdvance ==
    /\ ~crashed
    /\ now < MaxTime
    /\ ~TickDue
    /\ now' = now + 1
    /\ UNCHANGED << cacheVars, mutex, callVars, reaperVars, crashed, written >>

\* ---------------------------------------------------------------- Next
Caller(t) ==
    \/ SetCall(t)    \/ SetLock(t)    \/ SetBody(t)    \/ SetUnlock(t)
    \/ SetTTLCall(t) \/ SetTTLLock(t) \/ SetTTLBody(t) \/ SetTTLUnlock(t)
    \/ GetCall(t)    \/ GetRLock(t)   \/ GetBody(t)    \/ GetRUnlock(t)
    \/ CountCall(t)  \/ CountRLock(t) \/ CountBody(t)  \/ CountRUnlock(t)
    \/ ClearCall(t)  \/ ClearLock(t)  \/ ClearLoop(t)  \/ ClearUnlock(t)
    \/ DeleteCall(t) \/ DeleteCheck(t) \/ DeleteDel(t)

Reaper ==
    \/ TickerFire \/ ReaperSelect
    \/ ttlCleanupLock \/ ttlCleanupLoop \/ ttlCleanupUnlock

Next ==
    \/ \E t \in Threads : Caller(t)
    \/ Reaper
    \/ ClockAdvance

Spec == Init /\ [][Next]_vars


\* ============================================================== claims
\* steps of the callers, recognised from the program counters
GetRuns(t)    == pc[t] = "Get_body"  /\ pc'[t] = "Get_RUnlock"
DeleteActs(t) == InDelete(t) /\ pc'[t] # pc[t]
DeleteReturns(t) == InDelete(t) /\ pc'[t] = "idle"

InWriteCS(t) == pc[t] \in {"Set_body", "Set_Unlock", "SetTTL_body",
                           "SetTTL_Unlock", "Clear_loop"}
InReadCS(t)  == pc[t] \in {"Get_body", "Get_RUnlock", "Count_body",
                           "Count_RUnlock"}
Sweeping     == rpc = "loop"

\* C1: a Get(k) that follows a Set(k, v), with no Delete(k), Clear or other
\* write of k in between, returns (v, true): always while the cache is not in
\* TTL mode, and in TTL mode whenever less than the default TTL has elapsed
\* since the Set or the last successful Get of k.
RoundTrip ==
    [][\A t \in Threads : GetRuns(t) =>
         LET k == ret'[t].key
         IN  (/\ SetWritten(k)
              /\ ~isTTL \/ now - written[k].at < ttl)
             => /\ ret'[t].found
                /\ ret'[t].data = written[k].data]_vars

\* a Get hits, in TTL mode and later than the Set's clock reading, a key
\* written by Set
RoundTripWitness ==
    \E t \in Threads :
       /\ pc[t] = "Get_RUnlock" /\ ret[t].found
       /\ isTTL /\ ttl > 0 /\ now > StartTime
       /\ SetWritten(ret[t].key)
       /\ written[ret[t].key].at = now

\* C2: Delete has exclusive access: it never reads or modifies the map while
\* another goroutine is inside a critical section of Set, SetTTL, Clear, Get,
\* Count or the sweep.
DeleteIsExclusive ==
    [][\A t \in Threads : DeleteActs(t) => Holders \ {t} = {}]_vars

\* C3: Set, SetTTL, Clear and the sweep exclude each other and every Get and
\* Count; only Get and Count overlap.
MutualExclusion ==
    /\ \A t, u \in Threads :
          t # u /\ InWriteCS(t) => ~InWriteCS(u) /\ ~InReadCS(u)
    /\ Sweeping => \A t \in Threads : ~InWriteCS(t) /\ ~InReadCS(t)

\* a writer is inside its critical section while the sweep and another
\* caller wait for the lock
MutualExclusionWitness ==
    \E t, u \in Threads :
       /\ InWriteCS(t)
       /\ pc[u] \in {"Get_RLock", "Count_RLock", "Set_Lock"}
       /\ rpc = "Lock"

\* C4: there is never more than one reaper: none before the cache is in TTL
\* mode, exactly one from then on, however many SetTTL calls are made.
OneReaper == reapers = IF isTTL THEN 1 ELSE 0

\* a cache whose default TTL is 0 holds two keys that only SetTTL can have
\* given a later deadline, and a further SetTTL is waiting for the lock
OneReaperWitness ==
    /\ ttl = 0 /\ reapers = 1
    /\ DOMAIN items = Keys
    /\ \A k \in Keys : items[k].expires > now
    /\ \E t \in Threads : pc[t] = "SetTTL_Lock"

\* C5: in TTL mode a Get of an absent key, or of an expired key that is still
\* in the map, returns (nil, false) and leaves the map as it was; so does a
\* Get of an absent key when the cache is not in TTL mode.
MissChangesNothing ==
    [][\A t \in Threads : GetRuns(t) =>
         LET k == ret'[t].key
         IN  (~Has(items, k) \/ (isTTL /\ expired(items[k])))
             => /\ ~ret'[t].found
                /\ ret'[t].data = Nil
                /\ items' = items]_vars

\* a Get misses a key whose expired entry is still in the map
MissChangesNothingWitness ==
    \E t \in Threads :
       /\ pc[t] = "Get_RUnlock" /\ ~ret[t].found
       /\ isTTL
       /\ Has(items, ret[t].key) /\ expired(items[ret[t].key])

\* C6: a successful Get in TTL mode never moves the deadline of the entry
\* earlier.
GetNeverShortens ==
    [][\A t \in Threads : GetRuns(t) /\ isTTL /\ ret'[t].found =>
         items'[ret'[t].key].expires >= items[ret'[t].key].expires]_vars

\* C9: while the cache is not in TTL mode there is no reaper, an entry leaves
\* the map only in a step of Delete or Clear, and Get changes nothing of the
\* cache.
ModeIsolation ==
    [][~isTTL' =>
         /\ reapers' = 0 /\ rpc' = "none"
         /\ (\E k \in DOMAIN items : ~Has(items', k)) =>
               \E t \in Threads :
                  \/ pc[t] = "Delete_del" /\ pc'[t] = "idle"
                  \/ pc[t] = "Clear_loop" /\ pc'[t] = "Clear_loop"
         /\ \A t \in Threads : GetRuns(t) =>
               UNCHANGED << cacheVars, reaperVars, mutex >>]_vars

\* after the clock has advanced, a cache that is not in TTL mode still holds
\* the entry a Set wrote at the start, and a Get has just hit it
ModeIsolationWitness ==
    \E t \in Threads :
       /\ ~isTTL /\ now > StartTime
       /\ pc[t] = "Get_RUnlock" /\ ret[t].found
       /\ SetWritten(ret[t].key)
       /\ written[ret[t].key].at = StartTime

SetRuns(t)      == pc[t] = "Set_body"    /\ pc'[t] = "Set_Unlock"
SetTTLRuns(t)   == pc[t] = "SetTTL_body" /\ pc'[t] = "SetTTL_Unlock"
CountRuns(t)    == pc[t] = "Count_body"  /\ pc'[t] = "Count_RUnlock"
InCount(t)      == pc[t] \in {"Count_RLock", "Count_body", "Count_RUnlock"}
ClearReturns(t) == pc[t] = "Clear_loop"  /\ pc'[t] = "idle"
ClearActs(t)    == \/ pc[t] = "Clear_loop"
                   \/ pc'[t] # pc[t] /\ pc'[t] \in {"Clear_Lock", "Clear_loop"}

\* C11: when Clear returns the map is empty (Count is 0 and every key reads
\* as absent); no Get or Count reads the map while a Clear is inside its
\* loop; no step of Clear changes the mode, the default TTL or the number of
\* reapers.
ClearIsAtomic ==
    [][\A t \in Threads :
         /\ ClearReturns(t) => items' = EmptyMap
         /\ (GetRuns(t) \/ CountRuns(t)) =>
               \A u \in Threads : pc[u] # "Clear_loop"
         /\ ClearActs(t) => UNCHANGED << isTTL, ttl, reapers >>]_vars

\* a Clear is inside its loop and has not yet removed an entry that a Set
\* wrote, while another caller waits to read and the reaper waits to sweep
ClearIsAtomicWitness ==
    \E t, u \in Threads :
       /\ pc[t] = "Clear_loop"
       /\ \E k \in DOMAIN items : SetWritten(k)
       /\ pc[u] \in {"Get_RLock", "Count_RLock"}
       /\ isTTL /\ rpc = "Lock"

\* C12: Count returns the number of keys in the map when it runs, the
\* expired entries that are still in the map included; while the cache is not
\* in TTL mode that is at least the number of keys written by Set and not
\* deleted, cleared or overwritten by SetTTL since; no step of Count changes
\* the cache.
CountIsRaw ==
    [][\A t \in Threads :
         /\ CountRuns(t) =>
               /\ ret'[t].count = Cardinality(DOMAIN items)
               /\ ~isTTL => ret'[t].count >=
                     Cardinality({k \in Keys : SetWritten(k)})
         /\ InCount(t) /\ pc'[t] # pc[t] =>
               UNCHANGED << cacheVars, reaperVars, written >>]_vars

\* Count has counted every key while one of them is expired and unreaped
CountIsRawWitness ==
    \E t \in Threads :
       /\ pc[t] = "Count_RUnlock" /\ ret[t].count = NumKeys
       /\ \E k \in DOMAIN items : expired(items[k])

\* C13: in TTL mode every entry in the map has its deadline set, and while
\* the cache is not in TTL mode no entry has.
ModeInvariant ==
    \A k \in DOMAIN items : isTTL <=> items[k].expires # ZeroTime

SetTTLOutlivesGets ==
    [][\A t \in Threads : GetRuns(t) =>
         LET k == ret'[t].key
         IN  (isTTL /\ ttl = 0 /\ SetTTLWritten(k) /\ now < written[k].until)
             => ret'[t].found]_vars

\* C16: once in TTL mode the cache stays in it, the default TTL never
\* changes, and the mode changes only in the body of a SetTTL.
ModeIsOneWay ==
    [][/\ isTTL => isTTL'
       /\ ttl' = ttl
       /\ isTTL' # isTTL => \E t \in Threads : SetTTLRuns(t)]_vars

\* a cache switched to TTL mode by SetTTL (an entry from before the switch
\* has no deadline) is being swept after the clock has advanced
ModeIsOneWayWitness ==
    /\ isTTL /\ now > StartTime /\ Sweeping
    /\ \E k \in DOMAIN items : items[k].expires = ZeroTime

\* a step of the sweep's range loop
SweepRuns == rpc = "loop" /\ todo' # todo

\* C17: a step of the sweep removes the entry it visits if and only if that
\* entry is expired, and changes no other entry; it never removes an entry
\* that was touched less than the default TTL earlier, nor one that a SetTTL
\* wrote less than its ttl earlier.
SweepIsExact ==
    [][SweepRuns =>
         /\ DOMAIN items' \subseteq DOMAIN items
         /\ \A k \in DOMAIN items :
               LET gone == ~Has(items', k)
               IN  /\ gone <=> (k \in todo \ todo' /\ expired(items[k]))
                   /\ ~gone => items'[k] = items[k]
                   /\ gone => ~(SetWritten(k) /\ now - written[k].at < ttl)
                   /\ gone => ~(SetTTLWritten(k) /\ now < written[k].until)]_vars

\* C18: in TTL mode a Get that touches an entry does so while no other
\* caller is inside Get with the same key.
GetTouchIsExclusive ==
    [][\A t \in Threads : GetRuns(t) /\ isTTL /\ ret'[t].found =>
         \A u \in Threads \ {t} :
            ~(pc[u] = "Get_RUnlock" /\ ret[u].key = ret'[t].key)]_vars

\* ========================================================= timed runs
\* TestExpiration: one goroutine writes and reads a cache made by
\* NewTTLCache(TimedTTL) while the reaper sweeps.  The sweep of a tick runs
\* in the millisecond of the tick: the clock waits for it.
TestCaller == CHOOSE t \in Threads : TRUE

TimedInit == Idle /\ NewTTLCache(TimedTTL)

ReaperAtRest == rpc = "select" /\ ~tickReady

ClockAdvanceTimed ==
    /\ ~crashed
    /\ now < TimedMax
    /\ ~TickDue
    /\ ReaperAtRest
    /\ now' = now + 1
    /\ UNCHANGED << cacheVars, mutex, callVars, reaperVars, crashed, written >>

TimedNext ==
    \/ SetCall(TestCaller) \/ SetLock(TestCaller)
    \/ SetBody(TestCaller) \/ SetUnlock(TestCaller)
    \/ GetCall(TestCaller) \/ GetRLock(TestCaller)
    \/ GetBody(TestCaller) \/ GetRUnlock(TestCaller)
    \/ Reaper
    \/ ClockAdvanceTimed

TimedSpec == TimedInit /\ [][TimedNext]_vars

Untouched(k) == SetWritten(k) /\ written[k].at = written[k].set
TouchedAtHalf(k) ==
    SetWritten(k) /\ 2 * (written[k].at - written[k].set) = ttl
Age(k) == now - written[k].set

LiveMax == LiveQuiet + 2 * MaxTTL + 1

AllIdle == \A t \in Threads : pc[t] = "idle"

ClockAdvanceLive ==
    /\ ~crashed
    /\ ~TickDue
    /\ now < LiveQuiet \/ AllIdle
    /\ IF now < LiveMax
       THEN now' = now + 1 /\ UNCHANGED nextTick
       ELSE rpc # "none" /\ nextTick' = nextTick - 1 /\ UNCHANGED now
    /\ UNCHANGED << cacheVars, mutex, callVars, reapers, rpc, todo, period,
                    tickReady, crashed, written >>

LiveCaller(t) == now <= LiveQuiet /\ Caller(t)

Progress(t) == pc[t] # "idle" /\ Caller(t)

LiveNext ==
    \/ \E t \in Threads : LiveCaller(t)
    \/ Reaper
    \/ ClockAdvanceLive

LiveSpec ==
    /\ Init
    /\ [][LiveNext]_vars
    /\ \A t \in Threads : SF_vars(Progress(t))
    /\ WF_vars(TickerFire)
    /\ WF_vars(ReaperSelect)
    /\ SF_vars(ttlCleanupLock)
    /\ WF_vars(ttlCleanupLoop)
    /\ WF_vars(ttlCleanupUnlock)
    /\ WF_vars(ClockAdvanceLive)

\* C8: in TTL mode, if the callers stop calling, the reaper empties the map
\* for good (unless a racing Delete has brought the process down).
EventuallySwept ==
    <>[]AllIdle => <>[](crashed \/ ~isTTL \/ DOMAIN items = {})

\* C19: every call of Set, SetTTL, Get, Count, Clear and Delete returns and
\* every sweep the reaper starts completes.
EveryCallReturns ==
    /\ \A t \in Threads : pc[t] # "idle" ~> pc[t] = "idle"
    /\ rpc \in {"Lock", "loop"} ~> rpc = "select"

====
